---- MODULE Spec2Model ----
(***************************************************************************)
(* Portfolio simulation engine of algo_trading:                            *)
(*   - PortfolioManager (strategy/portfolio_manager.py), the shared-cash   *)
(*     multi-instrument ledger;                                            *)
(*   - the date loop of run_portfolio_backtest (main.py) that drives it;   *)
(*   - Backtester (strategy/backtester.py), the single-instrument engine.  *)
(*   - RSIMAStrategy (strategy/rsi_ma_strategy.py) with the indicators of  *)
(*     strategy/indicators.py, which turns closes into buy / sell flags.   *)
(*                                                                         *)
(* Specifications:                                                         *)
(*   Spec          the date loop of run_portfolio_backtest;                *)
(*   SpecPM        PortfolioManager's methods called in any order;         *)
(*   SpecSummary   the same, with get_summary() called twice in a row;     *)
(*   SpecInvalid   the same calls on an out-of-range PortfolioConfig;      *)
(*   SpecDrawdown  _calculate_max_drawdown on snapshot logs of any shape;  *)
(*   SpecBT        Backtester.run fed row by row;                          *)
(*   SpecFrame     Backtester.run called on whole price and signal frames; *)
(*   SpecSessions  a session with either engine: a PortfolioManager that   *)
(*                 can be reset, or a Backtester run again on its frames;   *)
(*   SpecSignals   generate_signals on frames of closes.                   *)
(*                                                                         *)
(* Numbers.  The code computes in floats; the model computes the same      *)
(* expressions exactly, on integers:                                       *)
(*   - money (cash, price, value, commission) is counted in hundredths of  *)
(*     a currency unit, so 100000 is 1000.00;                              *)
(*   - the fractions max_position_size, min_cash_reserve and the           *)
(*     PortfolioManager commission rate are counted in percent, so 25 is   *)
(*     0.25;                                                               *)
(*   - prices are whole currency units (multiples of 100 hundredths), so   *)
(*     value * rate / 100 is an integer and no product is ever rounded.    *)
(***************************************************************************)
EXTENDS Integers, Sequences, FiniteSets, TLC

\* Bounds of the model.
MaxDates == 3
MaxTrades == 3
MaxSnapshots == 1
MaxRows == 4
MaxValues == 4
MaxRuns == 2
MaxSessionRows == 2
MaxCloses == 4
MaxFrameRows == 3

\* list(data_dict.keys()): the caller-supplied instrument list, in order.
stocks == <<"A", "B">>

StockSet == {stocks[i] : i \in 1..Len(stocks)}

\* Daily close prices the inputs are drawn from (50.00 and 100.00).
Prices == {5000, 10000}

\* PortfolioConfig values the runs are drawn from: the two main.py builds
\* (max_position_size=0.25, min_cash_reserve=0.1, with a zero and a 1%
\* commission), a half-allocation one, and a fully-invested one.
Configs ==
    { [initial_cash |-> 100000, commission |-> 0, max_position_size |-> 25,  min_cash_reserve |-> 10],
      [initial_cash |-> 100000, commission |-> 1, max_position_size |-> 25,  min_cash_reserve |-> 10],
      [initial_cash |-> 100000, commission |-> 0, max_position_size |-> 50,  min_cash_reserve |-> 0],
      [initial_cash |-> 100000, commission |-> 1, max_position_size |-> 100, min_cash_reserve |-> 0] }

\* PortfolioConfig values that are out of range: no starting cash, a position
\* cap of zero, a position cap above 1, a negative cash reserve.
InvalidConfigs ==
    { [initial_cash |-> 0,      commission |-> 0, max_position_size |-> 25,  min_cash_reserve |-> 10],
      [initial_cash |-> 100000, commission |-> 0, max_position_size |-> 0,   min_cash_reserve |-> 10],
      [initial_cash |-> 100000, commission |-> 0, max_position_size |-> 150, min_cash_reserve |-> 10],
      [initial_cash |-> 100000, commission |-> 0, max_position_size |-> 25,  min_cash_reserve |-> 0 - 10] }

VARIABLES
    config,          \* PortfolioManager.config
    cash,            \* PortfolioManager.cash
    positions,       \* PortfolioManager.positions: stock -> shares held
    trade_log,       \* PortfolioManager.trade_log
    daily_values,    \* PortfolioManager.daily_values
    ret,             \* PortfolioManager: what the last method call returned ("True", "False", "None" or the summary dict)
    drawdown_ret,    \* PortfolioManager: what the last _calculate_max_drawdown returned
    date,            \* run_portfolio_backtest: number of the date being processed
    pc,              \* run_portfolio_backtest: position in the date loop
    current_prices,  \* run_portfolio_backtest: this date's {ticker: close}
    signals,         \* run_portfolio_backtest: this date's buy/sell flags per ticker
    idx,             \* run_portfolio_backtest: position in current_prices.keys()
    bt,              \* Backtester: the dataclass fields initial_cash, commission
    bt_cash,         \* Backtester._cash
    bt_position,     \* Backtester._position
    executed_trades, \* Backtester.run: executed_trades
    equity,          \* Backtester.run: df["equity"], one entry per row done
    row,             \* Backtester.run: number of rows of df done
    row_sig,         \* Backtester.run: the signals row dated like the last df row
    last_sig,        \* Backtester.run: the latest signals row dated at or before it
    bt_pc,           \* Backtester.run: position in the call
    summary,         \* Backtester.run: summary_df
    price_df,        \* Backtester.run: the price_df argument, rows (ts, close)
    sig_frame,       \* Backtester.run: the signals argument, date -> row
    prev_runs,       \* what the earlier run() calls on this Backtester returned
    cfg,             \* RSIMAStrategy.cfg
    df,              \* generate_signals: the close column of its argument
    signals_df       \* generate_signals: the frame it returned, one row per row of df

pmVars == <<config, cash, positions, trade_log, daily_values>>
retVars == <<ret, drawdown_ret>>
runVars == <<date, pc, current_prices, signals, idx>>
stratVars == <<cfg, df, signals_df>>
frameVars == <<price_df, sig_frame, prev_runs, cfg, df, signals_df>>
btVars == <<bt, bt_cash, bt_position, executed_trades, equity, row, row_sig,
            last_sig, bt_pc, summary, price_df, sig_frame, prev_runs,
            cfg, df, signals_df>>
vars == <<config, cash, positions, trade_log, daily_values, ret, drawdown_ret,
          date, pc, current_prices, signals, idx,
          bt, bt_cash, bt_position, executed_trades, equity, row, row_sig,
          last_sig, bt_pc, summary, price_df, sig_frame, prev_runs,
            cfg, df, signals_df>>

Max(a, b) == IF a >= b THEN a ELSE b
Min(a, b) == IF a <= b THEN a ELSE b

\* The empty dict.
NoPrices == [s \in {} |-> 0]

----------------------------------------------------------------------------
(* PortfolioManager *)

\* prices.get(stock, 0)
PriceOrZero(prices, stock) == IF stock \in DOMAIN prices THEN prices[stock] ELSE 0

RECURSIVE StockValueFrom(_, _, _)
StockValueFrom(pos, prices, i) ==
    IF i > Len(stocks) THEN 0
    ELSE pos[stocks[i]] * PriceOrZero(prices, stocks[i]) + StockValueFrom(pos, prices, i + 1)

\* A valuation that forgets the shares held.
get_portfolio_value_cash_only(c, pos, prices) == c

get_portfolio_value(c, pos, prices) == c + StockValueFrom(pos, prices, 1)

\* The result is 100 times the available cash: the percent products are kept
\* undivided so that nothing is rounded.
get_available_cash_for_stock(c, pos, prices) ==
    LET current_portfolio_value == get_portfolio_value(c, pos, prices)
        max_allocation == current_portfolio_value * config.max_position_size
        min_cash_needed == current_portfolio_value * config.min_cash_reserve
        available_cash == Max(0, 100 * c - min_cash_needed)
    IN  Min(available_cash, max_allocation)

\* A can_buy that lost its "already have position" test.
can_buy_no_position_test(c, pos, stock, price, prices) ==
    LET available_cash == get_available_cash_for_stock(c, pos, prices)
    IN  IF available_cash < 100 * price THEN [ok |-> FALSE, qty |-> 0]
        ELSE [ok |-> (available_cash \div (100 * price)) > 0,
              qty |-> available_cash \div (100 * price)]

\* (can_buy, max_quantity)
can_buy(c, pos, stock, price, prices) ==
    IF pos[stock] > 0 THEN [ok |-> FALSE, qty |-> 0]
    ELSE LET available_cash == get_available_cash_for_stock(c, pos, prices)
         IN  IF available_cash < 100 * price THEN [ok |-> FALSE, qty |-> 0]
             ELSE [ok |-> (available_cash \div (100 * price)) > 0,
                   qty |-> available_cash \div (100 * price)]

\* A can_sell that offers half the position (rounded up) for sale.
can_sell_half(pos, stock) ==
    [ok |-> pos[stock] > 0, qty |-> (pos[stock] + 1) \div 2]

\* (can_sell, quantity)
can_sell(pos, stock) == [ok |-> pos[stock] > 0, qty |-> pos[stock]]

\* An execute_buy that logs the commission and pays it twice.
execute_buy_double_fee(stock, price, d, prices) ==
    LET cb == can_buy(cash, positions, stock, price, prices)
        trade_value == price * cb.qty
        commission == (trade_value * config.commission) \div 100
        total_cost == trade_value + 2 * commission
    IN  IF ~cb.ok
        THEN ret' = "False" /\ UNCHANGED <<cash, positions, trade_log>>
        ELSE /\ ret' = "True"
             /\ cash' = cash - total_cost
             /\ positions' = [positions EXCEPT ![stock] = @ + cb.qty]
             /\ trade_log' = Append(trade_log,
                    [date |-> d, stock |-> stock, type |-> "BUY", price |-> price,
                     quantity |-> cb.qty, value |-> trade_value,
                     commission |-> commission, cash_after |-> cash'])

execute_buy(stock, price, d, prices) ==
    LET cb == can_buy(cash, positions, stock, price, prices)
        trade_value == price * cb.qty
        commission == (trade_value * config.commission) \div 100
        total_cost == trade_value + commission
    IN  IF ~cb.ok
        THEN ret' = "False" /\ UNCHANGED <<cash, positions, trade_log>>
        ELSE /\ ret' = "True"
             /\ cash' = cash - total_cost
             /\ positions' = [positions EXCEPT ![stock] = @ + cb.qty]
             /\ trade_log' = Append(trade_log,
                    [date |-> d, stock |-> stock, type |-> "BUY", price |-> price,
                     quantity |-> cb.qty, value |-> trade_value,
                     commission |-> commission, cash_after |-> cash'])

\* An execute_sell that credits the gross value and still logs the commission.
execute_sell_gross(stock, price, d) ==
    LET cs == can_sell(positions, stock)
        trade_value == price * cs.qty
        commission == (trade_value * config.commission) \div 100
    IN  IF ~cs.ok
        THEN ret' = "False" /\ UNCHANGED <<cash, positions, trade_log>>
        ELSE /\ ret' = "True"
             /\ cash' = cash + trade_value
             /\ positions' = [positions EXCEPT ![stock] = 0]
             /\ trade_log' = Append(trade_log,
                    [date |-> d, stock |-> stock, type |-> "SELL", price |-> price,
                     quantity |-> cs.qty, value |-> trade_value,
                     commission |-> commission, cash_after |-> cash'])

\* An execute_sell that does not ask can_sell first.
execute_sell_unchecked(stock, price, d) ==
    LET cs == can_sell(positions, stock)
        trade_value == price * cs.qty
        commission == (trade_value * config.commission) \div 100
        total_received == trade_value - commission
    IN  /\ ret' = "True"
        /\ cash' = cash + total_received
        /\ positions' = [positions EXCEPT ![stock] = 0]
        /\ trade_log' = Append(trade_log,
               [date |-> d, stock |-> stock, type |-> "SELL", price |-> price,
                quantity |-> cs.qty, value |-> trade_value,
                commission |-> commission, cash_after |-> cash'])

\* An execute_sell that empties the whole ledger.
execute_sell_whole_ledger(stock, price, d) ==
    LET cs == can_sell(positions, stock)
        trade_value == price * cs.qty
        commission == (trade_value * config.commission) \div 100
        total_received == trade_value - commission
    IN  IF ~cs.ok
        THEN ret' = "False" /\ UNCHANGED <<cash, positions, trade_log>>
        ELSE /\ ret' = "True"
             /\ cash' = cash + total_received
             /\ positions' = [s \in StockSet |-> 0]
             /\ trade_log' = Append(trade_log,
                    [date |-> d, stock |-> stock, type |-> "SELL", price |-> price,
                     quantity |-> cs.qty, value |-> trade_value,
                     commission |-> commission, cash_after |-> cash'])

execute_sell(stock, price, d) ==
    LET cs == can_sell(positions, stock)
        trade_value == price * cs.qty
        commission == (trade_value * config.commission) \div 100
        total_received == trade_value - commission
    IN  IF ~cs.ok
        THEN ret' = "False" /\ UNCHANGED <<cash, positions, trade_log>>
        ELSE /\ ret' = "True"
             /\ cash' = cash + total_received
             /\ positions' = [positions EXCEPT ![stock] = 0]
             /\ trade_log' = Append(trade_log,
                    [date |-> d, stock |-> stock, type |-> "SELL", price |-> price,
                     quantity |-> cs.qty, value |-> trade_value,
                     commission |-> commission, cash_after |-> cash'])

\* A snapshot whose stock_value is the whole portfolio value, cash included.
update_daily_value_gross_stock(d, prices) ==
    LET portfolio_value == get_portfolio_value(cash, positions, prices)
    IN  /\ daily_values' = Append(daily_values,
               [date |-> d, cash |-> cash, stock_value |-> portfolio_value,
                total_value |-> portfolio_value, positions |-> positions])
        /\ ret' = "None"

update_daily_value(d, prices) ==
    LET portfolio_value == get_portfolio_value(cash, positions, prices)
    IN  /\ daily_values' = Append(daily_values,
               [date |-> d, cash |-> cash, stock_value |-> portfolio_value - cash,
                total_value |-> portfolio_value, positions |-> positions])
        /\ ret' = "None"

\* The float results of get_summary are kept as exact fractions num / den in
\* lowest terms with den > 0, so that equal values are equal records.
Abs(x) == IF x < 0 THEN 0 - x ELSE x

RECURSIVE GCD(_, _)
GCD(a, b) == IF b = 0 THEN a ELSE GCD(b, a % b)

Frac(n, d) ==
    LET g == GCD(Abs(n), Abs(d))
        sgn == IF d < 0 THEN 0 - 1 ELSE 1
    IN  [num |-> (sgn * n) \div g, den |-> (sgn * d) \div g]

\* 0.0
Zero == [num |-> 0, den |-> 1]

\* What a call leaves behind when a float division by zero raises.
ZeroDivisionError == [raised |-> "ZeroDivisionError"]

\* _calculate_max_drawdown has not been called.
NotCalled == [called |-> FALSE]

\* a / b < c / d for b, d > 0, by comparing the integer parts and then the
\* reciprocals of the remainders: no product is formed.
RECURSIVE FracLess(_, _, _, _)
FracLess(a, b, c, d) ==
    IF a \div b # c \div d THEN a \div b < c \div d
    ELSE IF c % d = 0 THEN FALSE
    ELSE IF a % b = 0 THEN TRUE
    ELSE FracLess(d, c % d, b, a % b)

\* max(x, y)
FracMax(x, y) == IF FracLess(x.num, x.den, y.num, y.den) THEN y ELSE x

\* The loop "for value in values" from its i-th turn on.
RECURSIVE DrawdownLoop(_, _, _, _)
DrawdownLoop(dv, i, peak, max_drawdown) ==
    IF i > Len(dv) THEN max_drawdown
    ELSE LET value == dv[i].total_value
             new_peak == IF value > peak THEN value ELSE peak
         IN  IF new_peak = 0 THEN ZeroDivisionError
             ELSE DrawdownLoop(dv, i + 1, new_peak,
                               FracMax(max_drawdown, Frac(100 * (new_peak - value), new_peak)))

\* A drawdown measured from the first value to the last one only.
_calculate_max_drawdown_first_to_last(dv) ==
    IF Len(dv) < 2 THEN Zero
    ELSE FracMax(Zero, Frac(100 * (dv[1].total_value - dv[Len(dv)].total_value),
                            dv[1].total_value))

_calculate_max_drawdown(dv) ==
    IF Len(dv) < 2 THEN Zero
    ELSE DrawdownLoop(dv, 1, dv[1].total_value, Zero)

\* sum(1 for pos in self.positions.values() if pos > 0)
current_positions(pos) == Cardinality({stock \in StockSet : pos[stock] > 0})

\* get_summary(): the dict it returns.  With no snapshot it has no
\* 'max_drawdown' key and 'total_trades' is the literal 0.
get_summary(c, pos, log, dv) ==
    IF dv = <<>>
    THEN [initial_value |-> config.initial_cash,
          final_value |-> config.initial_cash,
          total_return_pct |-> Zero,
          total_trades |-> 0,
          current_cash |-> c,
          current_positions |-> current_positions(pos)]
    ELSE [initial_value |-> config.initial_cash,
          final_value |-> dv[Len(dv)].total_value,
          total_return_pct |->
              IF config.initial_cash = 0 THEN ZeroDivisionError
              ELSE Frac(100 * (dv[Len(dv)].total_value - config.initial_cash),
                        config.initial_cash),
          total_trades |-> Len(log),
          current_cash |-> c,
          current_positions |-> current_positions(pos),
          max_drawdown |-> _calculate_max_drawdown(dv)]

reset ==
    /\ cash' = config.initial_cash
    /\ positions' = [s \in StockSet |-> 0]
    /\ trade_log' = <<>>
    /\ daily_values' = <<>>
    /\ ret' = "None"

\* PortfolioManager.__init__ / reset, for a chosen configuration.
PortfolioInit ==
    /\ config \in Configs
    /\ cash = config.initial_cash
    /\ positions = [s \in StockSet |-> 0]
    /\ trade_log = <<>>
    /\ daily_values = <<>>
    /\ ret = "None"
    /\ drawdown_ret = NotCalled

----------------------------------------------------------------------------
(* Backtester: the instance and the state of a run() call *)

\* A date the signals frame has no row for.
NoRow == [absent |-> TRUE]

\* The values a cell of the signals frame's buy / sell columns can hold.
FlagValues == {"True", "False", "NaN"}

SignalRows == [buy : FlagValues, sell : FlagValues]

\* Backtester(initial_cash, commission): 1000.00, with no fee and a 5.00 fee.
BTConfigs == { [initial_cash |-> 100000, commission |-> 0],
               [initial_cash |-> 100000, commission |-> 500] }

NoSummary == [built |-> FALSE]

\* A Backtester nobody has called run() on: _cash = 0.0, _position = 0.
BTFresh ==
    /\ bt_cash = 0
    /\ bt_position = 0
    /\ executed_trades = <<>>
    /\ equity = <<>>
    /\ row = 0
    /\ row_sig = NoRow
    /\ last_sig = NoRow
    /\ bt_pc = "idle"
    /\ summary = NoSummary

\* No frames held: run() has not been given its arguments.
NoFrame == price_df = <<>> /\ sig_frame = <<>> /\ prev_runs = <<>>

\* RSIMAStrategyConfig(): the dataclass defaults.
RSIMAStrategyConfig ==
    [rsi_period |-> 14, fast_ma |-> 20, slow_ma |-> 50, buy_rsi |-> 30, sell_rsi |-> 70]

\* A strategy nobody has called generate_signals() on.
NoStrategy == cfg = RSIMAStrategyConfig /\ df = <<>> /\ signals_df = <<>>

BTIdle ==
    /\ bt = [initial_cash |-> 100000, commission |-> 0]
    /\ BTFresh
    /\ NoFrame
    /\ NoStrategy

----------------------------------------------------------------------------
(* run_portfolio_backtest: the date loop *)

\* current_prices.keys(): dict order is insertion order, and the dict is filled
\* in the order of all_signals, which is the order of data_dict.
RECURSIVE KeysFrom(_, _)
KeysFrom(prices, i) ==
    IF i > Len(stocks) THEN <<>>
    ELSE (IF stocks[i] \in DOMAIN prices THEN <<stocks[i]>> ELSE <<>>) \o KeysFrom(prices, i + 1)

\* The keys in the reverse of the instrument-list order.
RECURSIVE KeysDownFrom(_, _)
KeysDownFrom(prices, i) ==
    IF i < 1 THEN <<>>
    ELSE (IF stocks[i] \in DOMAIN prices THEN <<stocks[i]>> ELSE <<>>) \o KeysDownFrom(prices, i - 1)

KeysReversed(prices) == KeysDownFrom(prices, Len(stocks))

Keys(prices) == KeysFrom(prices, 1)

RunInit ==
    /\ date = 0
    /\ pc = "dates"
    /\ current_prices = NoPrices
    /\ signals = NoPrices
    /\ idx = 1

Init == PortfolioInit /\ RunInit /\ BTIdle

\* for date in all_dates: build current_prices.  all_dates is the union of the
\* instruments' indexes, so every date has a row for at least one instrument.
BeginDate ==
    /\ pc = "dates"
    /\ date < MaxDates
    /\ \E present \in (SUBSET StockSet) \ {{}} :
         \E px \in [present -> Prices] :
           \E sg \in [present -> [buy : BOOLEAN, sell : BOOLEAN]] :
             /\ current_prices' = px
             /\ signals' = sg
    /\ date' = date + 1
    /\ idx' = 1
    /\ pc' = "tickers"
    /\ UNCHANGED <<pmVars, retVars>>
    /\ UNCHANGED btVars

\* One turn of "for ticker in current_prices.keys()".
ProcessTicker ==
    /\ pc = "tickers"
    /\ idx <= Len(Keys(current_prices))
    /\ LET ticker == Keys(current_prices)[idx]
           price == current_prices[ticker]
       IN  IF signals[ticker].buy
           THEN execute_buy(ticker, price, date, current_prices)
           ELSE IF signals[ticker].sell
                THEN execute_sell(ticker, price, date)
                ELSE UNCHANGED <<cash, positions, trade_log, ret>>
    /\ idx' = idx + 1
    /\ UNCHANGED <<config, daily_values, drawdown_ret, date, pc, current_prices, signals>>
    /\ UNCHANGED btVars

\* The end of the date: update_daily_value, then on to the next date.
EndDate ==
    /\ pc = "tickers"
    /\ idx > Len(Keys(current_prices))
    /\ update_daily_value(date, current_prices)
    /\ pc' = "dates"
    /\ current_prices' = NoPrices
    /\ signals' = NoPrices
    /\ idx' = 1
    /\ UNCHANGED <<config, cash, positions, trade_log, drawdown_ret, date>>
    /\ UNCHANGED btVars

\* all_dates is exhausted: return portfolio, all_signals.
Return ==
    /\ pc = "dates"
    /\ pc' = "done"
    /\ UNCHANGED <<pmVars, retVars, date, current_prices, signals, idx>>
    /\ UNCHANGED btVars

Next == BeginDate \/ ProcessTicker \/ EndDate \/ Return

Spec == Init /\ [][Next]_vars

----------------------------------------------------------------------------
(* PortfolioManager driven directly through its methods, in any order and   *)
(* with any arguments: the price passed to execute_buy / execute_sell need  *)
(* not be the one in the current_prices dict, and the dict may leave any    *)
(* instrument out.  The date argument is only copied into the records, so    *)
(* every call passes the same one.                                          *)

PriceDicts == UNION {[present -> Prices] : present \in SUBSET StockSet}

PMInit ==
    /\ PortfolioInit
    /\ date = 1
    /\ pc = "api"
    /\ current_prices = NoPrices
    /\ signals = NoPrices
    /\ idx = 1
    /\ BTIdle

CallExecuteBuy ==
    /\ pc = "api"
    /\ Len(trade_log) < MaxTrades
    /\ \E stock \in StockSet : \E price \in Prices : \E prices \in PriceDicts :
         execute_buy(stock, price, date, prices)
    /\ UNCHANGED <<config, daily_values, drawdown_ret, runVars>>
    /\ UNCHANGED btVars

CallExecuteSell ==
    /\ pc = "api"
    /\ Len(trade_log) < MaxTrades
    /\ \E stock \in StockSet : \E price \in Prices :
         execute_sell(stock, price, date)
    /\ UNCHANGED <<config, daily_values, drawdown_ret, runVars>>
    /\ UNCHANGED btVars

CallUpdateDailyValue ==
    /\ pc = "api"
    /\ Len(daily_values) < MaxSnapshots
    /\ \E prices \in PriceDicts : update_daily_value(date, prices)
    /\ UNCHANGED <<config, cash, positions, trade_log, drawdown_ret, runVars>>
    /\ UNCHANGED btVars

CallReset ==
    /\ pc = "api"
    /\ reset
    /\ UNCHANGED <<config, drawdown_ret, runVars>>
    /\ UNCHANGED btVars

\* A get_summary() that hands the snapshots over and empties the snapshot log.
CallGetSummaryDraining ==
    /\ pc \in {"api", "summary1"}
    /\ ret' = get_summary(cash, positions, trade_log, daily_values)
    /\ daily_values' = <<>>
    /\ pc' = IF pc = "api" THEN "summary1" ELSE "summary2"
    /\ UNCHANGED <<config, cash, positions, trade_log, drawdown_ret,
                   date, current_prices, signals, idx>>
    /\ UNCHANGED btVars

\* get_summary(), called once after the other calls ("summary1") and then
\* once more right away ("summary2").
CallGetSummary ==
    /\ pc \in {"api", "summary1"}
    /\ ret' = get_summary(cash, positions, trade_log, daily_values)
    /\ pc' = IF pc = "api" THEN "summary1" ELSE "summary2"
    /\ UNCHANGED <<pmVars, drawdown_ret, date, current_prices, signals, idx>>
    /\ UNCHANGED btVars

\* PortfolioManager(config, stocks) on an out-of-range PortfolioConfig.  The
\* dataclass has no __post_init__ and __init__ only stores the config and
\* calls reset(): the object is built like any other.
InvalidInit ==
    /\ config \in InvalidConfigs
    /\ cash = config.initial_cash
    /\ positions = [s \in StockSet |-> 0]
    /\ trade_log = <<>>
    /\ daily_values = <<>>
    /\ ret = "None"
    /\ drawdown_ret = NotCalled
    /\ date = 1
    /\ pc = "api"
    /\ current_prices = NoPrices
    /\ signals = NoPrices
    /\ idx = 1
    /\ BTIdle

PMNext ==
    \/ CallExecuteBuy
    \/ CallExecuteSell
    \/ CallUpdateDailyValue
    \/ CallReset

SpecPM == PMInit /\ [][PMNext]_vars

\* The same calls on the two portfolios main.py builds (max_position_size
\* 0.25, min_cash_reserve 0.1), and at any point get_summary() twice in a row,
\* as main.py calls it.
SummaryInit == PMInit /\ config.max_position_size = 25

SummaryNext == PMNext \/ CallGetSummary

SpecSummary == SummaryInit /\ [][SummaryNext]_vars

SpecInvalid == InvalidInit /\ [][PMNext]_vars

----------------------------------------------------------------------------
(* _calculate_max_drawdown on snapshot logs of every shape.  The portfolio   *)
(* bought 5 shares of A at 100.00 out of 1000.00 (the half-allocation        *)
(* configuration) and was then snapshotted on up to MaxValues dates, A       *)
(* closing at any of three prices: total values 750.00, 1000.00, 1250.00.    *)

ClosesOfA == {5000, 10000, 15000}

DrawdownInit ==
    /\ config = [initial_cash |-> 100000, commission |-> 0,
                 max_position_size |-> 50, min_cash_reserve |-> 0]
    /\ cash = 50000
    /\ positions = [s \in StockSet |-> IF s = "A" THEN 5 ELSE 0]
    /\ trade_log = <<[date |-> 1, stock |-> "A", type |-> "BUY", price |-> 10000,
                      quantity |-> 5, value |-> 50000, commission |-> 0,
                      cash_after |-> 50000]>>
    /\ \E n \in 0..MaxValues : \E close \in [1..n -> ClosesOfA] :
          daily_values = [k \in 1..n |->
              [date |-> k, cash |-> cash, stock_value |-> 5 * close[k],
               total_value |-> cash + 5 * close[k], positions |-> positions]]
    /\ ret = IF daily_values = <<>> THEN "True" ELSE "None"
    /\ drawdown_ret = NotCalled
    /\ date = Max(1, Len(daily_values))
    /\ pc = "api"
    /\ current_prices = NoPrices
    /\ signals = NoPrices
    /\ idx = 1
    /\ BTIdle

CallMaxDrawdown ==
    /\ drawdown_ret = NotCalled
    /\ drawdown_ret' = _calculate_max_drawdown(daily_values)
    /\ UNCHANGED <<pmVars, ret, runVars>>
    /\ UNCHANGED btVars

SpecDrawdown == DrawdownInit /\ [][CallMaxDrawdown]_vars

----------------------------------------------------------------------------
(* Backtester.run *)

\* A reindex that takes only the rows of the same date (no method="ffill").
reindex_exact(own, latest) == own

\* signals.reindex(df.index, method="ffill") at one date of df: the signals
\* row of that date, else the latest earlier one, else nothing (a row of NaN).
\* The cells are copied as they are, NaN included.
reindex_ffill(own, latest) == IF own = NoRow THEN latest ELSE own

\* .fillna(False) then .astype(bool), on one cell.
fillna_bool(r, col) == IF r = NoRow THEN FALSE ELSE r[col] = "True"

\* _execute: book.append and the two state updates.
\* round(price, 4) and round(self._cash, 4) change nothing on hundredths.
bt_execute(ts, side, price, qty) ==
    LET pv == price * qty
        sign == IF side = "BUY" THEN 1 ELSE 0 - 1
    IN  /\ bt_cash' = bt_cash - (sign * pv + bt.commission)
        /\ bt_position' = bt_position + sign * qty
        /\ executed_trades' = Append(executed_trades,
               [date |-> ts, type |-> side, price |-> price, qty |-> qty,
                cash |-> bt_cash'])

\* round(x, 2) of x = num / den >= 0, in hundredths: Python rounds the exact
\* half to the even neighbour (the halves that arise here, k/8 and the like,
\* are exact in binary).
RoundHundredths(num, den) ==
    LET q == (100 * num) \div den
        r2 == 2 * ((100 * num) % den)
    IN  IF r2 < den THEN q
        ELSE IF r2 > den THEN q + 1
        ELSE IF q % 2 = 0 THEN q ELSE q + 1

\* (trades["type"] == "SELL") & (trades["price"].diff() > 0.0), row k.
IsWin(trades, k) ==
    /\ trades[k].type = "SELL"
    /\ k > 1
    /\ trades[k].price - trades[k - 1].price > 0

\* round(win_ratio, 2), in hundredths: .mean() of the boolean column is the
\* number of True rows over the number of rows of trades.
win_ratio(trades) ==
    RoundHundredths(Cardinality({k \in 1..Len(trades) : IsWin(trades, k)}), Len(trades))

\* round(n / d, 0) for an integer n of either sign and d > 0, the exact half
\* going to the even neighbour.
RoundHalfEven(n, d) ==
    LET q == n \div d
        r2 == 2 * (n % d)
    IN  IF r2 < d THEN q
        ELSE IF r2 > d THEN q + 1
        ELSE IF q % 2 = 0 THEN q ELSE q + 1

\* round(x / d * 100, 2) in hundredths, for d > 0: the whole multiples of d in
\* x are taken out first, which keeps the products small and rounds the same.
RoundPercent(x, d) == 10000 * (x \div d) + RoundHalfEven(10000 * (x % d), d)

\* A return that forgets the "- 1": the ratio final / initial in percent.
total_return_ratio(final_nav, initial_cash) == RoundPercent(final_nav, initial_cash)

\* round((final_nav / initial_cash - 1) * 100, 2), in hundredths of a percent.
total_return(final_nav, initial_cash) == RoundPercent(final_nav - initial_cash, initial_cash)

_build_summary(trades, pnl) ==
    [built |-> TRUE,
     initial_cash |-> bt.initial_cash,
     final_nav |-> IF pnl = <<>> THEN bt.initial_cash ELSE pnl[Len(pnl)],
     total_return |-> total_return(IF pnl = <<>> THEN bt.initial_cash ELSE pnl[Len(pnl)],
                                   bt.initial_cash),
     trades |-> Len(trades),
     win_ratio |-> IF trades = <<>> THEN "" ELSE win_ratio(trades)]

BTInit ==
    /\ bt \in BTConfigs
    /\ BTFresh
    /\ NoFrame
    /\ NoStrategy
    /\ config = [initial_cash |-> 100000, commission |-> 0,
                 max_position_size |-> 25, min_cash_reserve |-> 10]
    /\ cash = config.initial_cash
    /\ positions = [s \in StockSet |-> 0]
    /\ trade_log = <<>>
    /\ daily_values = <<>>
    /\ ret = "None"
    /\ drawdown_ret = NotCalled
    /\ RunInit

\* run(): up to the row loop.
BTRun ==
    /\ bt_pc = "idle"
    /\ bt_cash' = bt.initial_cash
    /\ bt_position' = 0
    /\ executed_trades' = <<>>
    /\ equity' = <<>>
    /\ bt_pc' = "rows"
    /\ UNCHANGED <<bt, row, row_sig, last_sig, summary, frameVars, pmVars, retVars, runVars>>

\* The signals frame has a row on a date between two dates of price_df.
BTSignalsOnlyDate ==
    /\ bt_pc = "rows"
    /\ row < MaxRows
    /\ \E sig \in SignalRows : last_sig' = sig
    /\ UNCHANGED <<bt, bt_cash, bt_position, executed_trades, equity, row, row_sig,
                   bt_pc, summary, frameVars, pmVars, retVars, runVars>>

\* The body of "for ts, row in df.iterrows()" for the row (ts, px) of df, with
\* sig the signals row dated ts and latest the latest earlier signals row.
bt_row(ts, px, sig, latest) ==
    LET sigs == reindex_ffill(sig, latest)
        buy == fillna_bool(sigs, "buy")
        sell == fillna_bool(sigs, "sell")
        qty == bt_cash \div px
    IN  /\ row_sig' = sig
        /\ last_sig' = sigs
        /\ IF buy /\ bt_position = 0
           THEN IF qty # 0
                THEN bt_execute(ts, "BUY", px, qty)
                ELSE UNCHANGED <<bt_cash, bt_position, executed_trades>>
           ELSE IF sell /\ bt_position > 0
                THEN bt_execute(ts, "SELL", px, bt_position)
                ELSE UNCHANGED <<bt_cash, bt_position, executed_trades>>
        /\ equity' = Append(equity, bt_cash' + bt_position' * px)

\* One turn of the row loop, on a next row of any price and any signals row.
BTRow ==
    /\ bt_pc = "rows"
    /\ row < MaxRows
    /\ \E px \in Prices : \E sig \in SignalRows \cup {NoRow} :
         bt_row(row + 1, px, sig, last_sig)
    /\ row' = row + 1
    /\ UNCHANGED <<bt, bt_pc, summary, frameVars, pmVars, retVars, runVars>>

\* After the last row: the summary, and return.
BTFinish ==
    /\ bt_pc = "rows"
    /\ summary' = _build_summary(executed_trades, equity)
    /\ bt_pc' = "done"
    /\ UNCHANGED <<bt, bt_cash, bt_position, executed_trades, equity, row, row_sig,
                   last_sig, frameVars, pmVars, retVars, runVars>>

BTNext == BTRun \/ BTSignalsOnlyDate \/ BTRow \/ BTFinish

SpecBT == BTInit /\ [][BTNext]_vars

----------------------------------------------------------------------------
(* Backtester.run called on whole frames: price_df and signals are chosen   *)
(* before the call and the row loop walks price_df in the order of its rows. *)

\* The dates a frame can be indexed by.
FrameDates == 1..MaxFrameRows

\* price_df: rows (ts, close) on distinct dates, in any order.  run() checks
\* only that the index is of a datetime dtype, which every frame here is.
PriceFrames ==
    {f \in UNION {[1..n -> [ts : FrameDates, close : Prices]] : n \in 0..MaxFrameRows} :
        \A i, j \in DOMAIN f : i # j => f[i].ts # f[j].ts}

\* signals: per date a row of two booleans, or no row.  The frame is read by
\* date, which is how reindex reads a frame whose index is sorted.
BoolRows == [buy : {"True", "False"}, sell : {"True", "False"}]

SignalFrames == [FrameDates -> BoolRows \cup {NoRow}]

\* Backtester(initial_cash=1000, commission=0) and (1000, commission=600).
FrameConfigs == { [initial_cash |-> 100000, commission |-> 0],
                  [initial_cash |-> 100000, commission |-> 60000] }

\* Five falling closes 100, 90, 80, 70, 60, buy on day 1 and sell on day 5.
FallingPrices == <<[ts |-> 1, close |-> 10000], [ts |-> 2, close |-> 9000],
                   [ts |-> 3, close |-> 8000], [ts |-> 4, close |-> 7000],
                   [ts |-> 5, close |-> 6000]>>

BuyFirstSellLast == <<[buy |-> "True", sell |-> "False"], [buy |-> "False", sell |-> "False"],
                      [buy |-> "False", sell |-> "False"], [buy |-> "False", sell |-> "False"],
                      [buy |-> "False", sell |-> "True"]>>

\* The frames of the sessions in which run() is called more than once: as
\* PriceFrames and SignalFrames, over MaxSessionRows dates.
SessionPriceFrames ==
    {f \in UNION {[1..n -> [ts : 1..MaxSessionRows, close : Prices]] : n \in 0..MaxSessionRows} :
        \A i, j \in DOMAIN f : i # j => f[i].ts # f[j].ts}

SessionSignalFrames == [1..MaxSessionRows -> BoolRows \cup {NoRow}]

\* A Backtester before its first run(), beside an untouched portfolio.
BeforeFirstRun ==
    /\ prev_runs = <<>>
    /\ NoStrategy
    /\ BTFresh
    /\ config = [initial_cash |-> 100000, commission |-> 0,
                 max_position_size |-> 25, min_cash_reserve |-> 10]
    /\ cash = config.initial_cash
    /\ positions = [s \in StockSet |-> 0]
    /\ trade_log = <<>>
    /\ daily_values = <<>>
    /\ ret = "None"
    /\ drawdown_ret = NotCalled
    /\ RunInit

FrameInit ==
    /\ \/ /\ bt \in FrameConfigs
          /\ price_df \in PriceFrames
          /\ sig_frame \in SignalFrames
       \/ /\ bt = [initial_cash |-> 100000, commission |-> 0]
          /\ price_df = FallingPrices
          /\ sig_frame = BuyFirstSellLast
    /\ BeforeFirstRun

SessionFrameInit ==
    /\ bt \in FrameConfigs
    /\ price_df \in SessionPriceFrames
    /\ sig_frame \in SessionSignalFrames
    /\ BeforeFirstRun

\* The row reindex(method="ffill") finds for date ts when the frame has none
\* dated ts: the one of the latest earlier date, if any.
LatestBefore(frame, ts) ==
    LET earlier == {d \in DOMAIN frame : d < ts /\ frame[d] # NoRow}
    IN  IF earlier = {} THEN NoRow
        ELSE frame[CHOOSE d \in earlier : \A e \in earlier : e <= d]

\* One turn of the row loop, on the next row of price_df.
BTFrameRow ==
    /\ bt_pc = "rows"
    /\ row < Len(price_df)
    /\ LET r == price_df[row + 1]
       IN  bt_row(r.ts, r.close, sig_frame[r.ts], LatestBefore(sig_frame, r.ts))
    /\ row' = row + 1
    /\ UNCHANGED <<bt, bt_pc, summary, frameVars, pmVars, retVars, runVars>>

\* After the last row of price_df: the summary, and return.
BTFrameFinish ==
    /\ bt_pc = "rows"
    /\ row = Len(price_df)
    /\ summary' = _build_summary(executed_trades, equity)
    /\ bt_pc' = "done"
    /\ UNCHANGED <<bt, bt_cash, bt_position, executed_trades, equity, row, row_sig,
                   last_sig, frameVars, pmVars, retVars, runVars>>

\* A run() that keeps the cash and the position the previous call ended with.
BTRunAgainCarrying ==
    /\ bt_pc = "done"
    /\ Len(prev_runs) + 1 < MaxRuns
    /\ prev_runs' = Append(prev_runs,
           [trades |-> executed_trades, pnl |-> equity, summary |-> summary])
    /\ executed_trades' = <<>>
    /\ equity' = <<>>
    /\ row' = 0
    /\ row_sig' = NoRow
    /\ last_sig' = NoRow
    /\ summary' = NoSummary
    /\ bt_pc' = "rows"
    /\ UNCHANGED <<bt, bt_cash, bt_position, price_df, sig_frame, stratVars,
                   pmVars, retVars, runVars>>

\* run() called again on the same instance with the same two frames, the
\* caller keeping what the call before returned: up to the row loop.
BTRunAgain ==
    /\ bt_pc = "done"
    /\ Len(prev_runs) + 1 < MaxRuns
    /\ prev_runs' = Append(prev_runs,
           [trades |-> executed_trades, pnl |-> equity, summary |-> summary])
    /\ bt_cash' = bt.initial_cash
    /\ bt_position' = 0
    /\ executed_trades' = <<>>
    /\ equity' = <<>>
    /\ row' = 0
    /\ row_sig' = NoRow
    /\ last_sig' = NoRow
    /\ summary' = NoSummary
    /\ bt_pc' = "rows"
    /\ UNCHANGED <<bt, price_df, sig_frame, stratVars, pmVars, retVars, runVars>>

FrameNext == BTRun \/ BTFrameRow \/ BTFrameFinish

SpecFrame == FrameInit /\ [][FrameNext]_vars

----------------------------------------------------------------------------
(* A session with either engine: a PortfolioManager called through its      *)
(* methods, reset() included, or a Backtester run on whole frames up to       *)
(* MaxRuns times.  pc = "dates" marks the sessions in which no                *)
(* PortfolioManager method is called.                                        *)

SessionInit == PMInit \/ SessionFrameInit

SessionNext == PMNext \/ (pc = "dates" /\ (FrameNext \/ BTRunAgain))

SpecSessions == SessionInit /\ [][SessionNext]_vars

----------------------------------------------------------------------------
(* RSIMAStrategy.generate_signals on a frame of closes.  An indicator value *)
(* is NaN or the exact fraction num / den, den > 0.                          *)

NaN == [nan |-> TRUE]

Value(n, d) == [nan |-> FALSE, num |-> n, den |-> d]

\* Daily closes the frames are drawn from.
Closes == {10, 11, 12, 14}

CloseFrames == UNION {[1..n -> Closes] : n \in 1..MaxCloses}

\* RSIMAStrategyConfig values the strategies are drawn from.  The windows are
\* short enough to fill within MaxCloses rows; three have the default
\* thresholds buy_rsi = 30, sell_rsi = 70, the last has them crossed over.
StrategyConfigs ==
    { [rsi_period |-> 1, fast_ma |-> 1, slow_ma |-> 2, buy_rsi |-> 30, sell_rsi |-> 70],
      [rsi_period |-> 2, fast_ma |-> 1, slow_ma |-> 2, buy_rsi |-> 30, sell_rsi |-> 70],
      [rsi_period |-> 1, fast_ma |-> 2, slow_ma |-> 3, buy_rsi |-> 30, sell_rsi |-> 70],
      [rsi_period |-> 2, fast_ma |-> 1, slow_ma |-> 2, buy_rsi |-> 65, sell_rsi |-> 35] }

\* col[lo] + ... + col[hi].
RECURSIVE RollingSum(_, _, _)
RollingSum(col, lo, hi) ==
    IF lo > hi THEN 0 ELSE col[hi] + RollingSum(col, lo, hi - 1)

\* series.rolling(window).mean(): NaN until the window is full.
sma(series, window) ==
    [i \in 1..Len(series) |->
        IF i < window THEN NaN
        ELSE Value(RollingSum(series, i - window + 1, i), window)]

\* delta is NaN on the first row, so the rolling means are NaN on the first
\* `period` rows.  After that, with U and D the window's sums of rises and of
\* falls: rs = U / D, which is NaN for 0 / 0 and inf for U / 0, and
\* 100 - 100 / (1 + rs) is NaN, 100, or 100 * U / (U + D).
rsi(series, period) ==
    LET up == [j \in 2..Len(series) |-> Max(series[j] - series[j - 1], 0)]
        down == [j \in 2..Len(series) |-> 0 - Min(series[j] - series[j - 1], 0)]
    IN  [i \in 1..Len(series) |->
            IF i <= period THEN NaN
            ELSE LET roll_up == RollingSum(up, i - period + 1, i)
                     roll_down == RollingSum(down, i - period + 1, i)
                 IN  IF roll_down = 0
                     THEN IF roll_up = 0 THEN NaN ELSE Value(100, 1)
                     ELSE Value(100 * roll_up, roll_up + roll_down)]

\* A comparison that is true on NaN.
LessThanOrNaN(x, t) == x.nan \/ x.num < t * x.den

\* series < scalar, series > scalar, series > series: false where a side is NaN.
LessThan(x, t) == ~x.nan /\ x.num < t * x.den

GreaterThan(x, t) == ~x.nan /\ x.num > t * x.den

Greater(x, y) == ~x.nan /\ ~y.nan /\ x.num * y.den > y.num * x.den

_compute_indicators(c, series) ==
    LET rsi_col == rsi(series, c.rsi_period)
        ma_fast == sma(series, c.fast_ma)
        ma_slow == sma(series, c.slow_ma)
        ma_cross == [i \in 1..Len(series) |-> Greater(ma_fast[i], ma_slow[i])]
        ma_cross_prev == [i \in 1..Len(series) |->
                             IF i = 1 THEN FALSE ELSE ma_cross[i - 1]]
    IN  [i \in 1..Len(series) |->
            [close |-> series[i],
             rsi |-> rsi_col[i],
             ma_fast |-> ma_fast[i],
             ma_slow |-> ma_slow[i],
             ma_cross |-> ma_cross[i],
             ma_cross_prev |-> ma_cross_prev[i],
             bullish_crossover |-> ma_cross[i] /\ ~ma_cross_prev[i],
             bearish_crossover |-> ~ma_cross[i] /\ ma_cross_prev[i]]]

buy_cond_1(c, r) == LessThan(r.rsi, c.buy_rsi)

\* A second BUY condition with | in place of &.
buy_cond_2_either(r) == LessThan(r.rsi, 45) \/ r.bullish_crossover

buy_cond_2(r) == LessThan(r.rsi, 45) /\ r.bullish_crossover

sell_cond_1(c, r) == GreaterThan(r.rsi, c.sell_rsi)

sell_cond_2(r) == GreaterThan(r.rsi, 55) /\ r.bearish_crossover

generate_signals(c, series) ==
    LET ind == _compute_indicators(c, series)
    IN  [i \in 1..Len(series) |->
            ind[i] @@ [buy |-> buy_cond_1(c, ind[i]) \/ buy_cond_2(ind[i]),
                       sell |-> sell_cond_1(c, ind[i]) \/ sell_cond_2(ind[i])]]

\* strategy = RSIMAStrategy(cfg) and a frame of closes, before the call.
SignalsInit ==
    /\ cfg \in StrategyConfigs
    /\ df \in CloseFrames
    /\ signals_df = <<>>
    /\ config = [initial_cash |-> 100000, commission |-> 0,
                 max_position_size |-> 25, min_cash_reserve |-> 10]
    /\ cash = config.initial_cash
    /\ positions = [s \in StockSet |-> 0]
    /\ trade_log = <<>>
    /\ daily_values = <<>>
    /\ ret = "None"
    /\ drawdown_ret = NotCalled
    /\ RunInit
    /\ bt = [initial_cash |-> 100000, commission |-> 0]
    /\ BTFresh
    /\ NoFrame

\* signals_df = strategy.generate_signals(df)
GenerateSignals ==
    /\ signals_df = <<>>
    /\ df # <<>>
    /\ signals_df' = generate_signals(cfg, df)
    /\ UNCHANGED <<cfg, df, pmVars, retVars, runVars>>
    /\ UNCHANGED <<bt, bt_cash, bt_position, executed_trades, equity, row, row_sig,
                   last_sig, bt_pc, summary, price_df, sig_frame, prev_runs>>

SpecSignals == SignalsInit /\ [][GenerateSignals]_vars

----------------------------------------------------------------------------
(* Reading the trade log *)

LastRecord(log) == log[Len(log)]

\* The step appended one record to the trade log and changed nothing before it.
TradeAppended ==
    /\ Len(trade_log') = Len(trade_log) + 1
    /\ SubSeq(trade_log', 1, Len(trade_log)) = trade_log

\* The greatest i <= k with log[i].stock = s, or 0.
LastIndexOf(log, k, s) ==
    LET I == {i \in 1..k : log[i].stock = s}
    IN  IF I = {} THEN 0 ELSE CHOOSE i \in I : \A j \in I : j <= i

\* Shares of s bought minus shares of s sold in the first k records.
RECURSIVE NetShares(_, _, _)
NetShares(log, k, s) ==
    IF k = 0 THEN 0
    ELSE NetShares(log, k - 1, s)
         + (IF log[k].stock # s THEN 0
            ELSE IF log[k].type = "BUY" THEN log[k].quantity ELSE 0 - log[k].quantity)

LedgerAfter(log, k) == [s \in StockSet |-> NetShares(log, k, s)]

CashAfter(log, k) == IF k = 0 THEN config.initial_cash ELSE log[k].cash_after

StockIndex(s) == CHOOSE i \in 1..Len(stocks) : stocks[i] = s

\* The instrument whose turn it is in the date loop.
InTurn == pc = "tickers" /\ idx <= Len(Keys(current_prices))
TurnTicker == Keys(current_prices)[idx]

----------------------------------------------------------------------------
(* Claims *)

\* C1: in the date loop, an instrument that is long at the start of its turn
\* and whose sell flag is true on that date has its full position sold in that
\* turn, whatever its buy flag.
C1_LongAndSellFlagSells ==
    [][ (InTurn /\ idx' = idx + 1 /\ positions[TurnTicker] > 0 /\ signals[TurnTicker].sell)
        => /\ positions'[TurnTicker] = 0
           /\ TradeAppended
           /\ LastRecord(trade_log').type = "SELL"
           /\ LastRecord(trade_log').stock = TurnTicker
           /\ LastRecord(trade_log').quantity = positions[TurnTicker]
           /\ LastRecord(trade_log').date = date ]_vars

\* C2: cash is never negative: the live cash, the cash_after of every trade
\* record and the cash of every daily snapshot are >= 0.
C2_CashNeverNegative ==
    /\ cash >= 0
    /\ \A k \in 1..Len(trade_log) : trade_log[k].cash_after >= 0
    /\ \A k \in 1..Len(daily_values) : daily_values[k].cash >= 0

\* C3: every executed trade conserves cash: value = price * quantity,
\* commission = value * rate, a BUY takes value + commission out of cash, a SELL
\* puts value - commission in, and the record's cash_after is the live cash
\* right after the trade.
C3_CashConservation ==
    [][ TradeAppended
        => LET r == LastRecord(trade_log')
           IN  /\ r.value = r.price * r.quantity
               /\ 100 * r.commission = r.value * config.commission
               /\ r.cash_after = cash'
               /\ r.type = "BUY" => cash' = cash - r.value - r.commission
               /\ r.type = "SELL" => cash' = cash + r.value - r.commission ]_vars

C3_Witness ==
    /\ \E k \in 1..Len(trade_log) : trade_log[k].type = "BUY" /\ trade_log[k].commission > 0
    /\ \E k \in 1..Len(trade_log) : trade_log[k].type = "SELL" /\ trade_log[k].commission > 0

\* C4: for every instrument, its records in the trade log alternate BUY, SELL,
\* BUY, ... starting with BUY.
C4_StrictAlternation ==
    \A k \in 1..Len(trade_log) :
        LET prev == LastIndexOf(trade_log, k - 1, trade_log[k].stock)
        IN  IF prev = 0 THEN trade_log[k].type = "BUY"
            ELSE trade_log[k].type # trade_log[prev].type

C4_Witness ==
    \E s \in StockSet : \E i, j, k \in 1..Len(trade_log) :
        /\ i < j /\ j < k
        /\ trade_log[i].stock = s /\ trade_log[j].stock = s /\ trade_log[k].stock = s
        /\ trade_log[i].type = "BUY" /\ trade_log[j].type = "SELL" /\ trade_log[k].type = "BUY"

\* The scenario of C5: pool 1000.00, max fraction 0.5, no reserve, no
\* commission, A and B both flagged BUY at 100.00 on the first trading date.
C5_Scenario ==
    /\ config = [initial_cash |-> 100000, commission |-> 0,
                 max_position_size |-> 50, min_cash_reserve |-> 0]
    /\ pc = "tickers"
    /\ DOMAIN current_prices = {"A", "B"}
    /\ current_prices["A"] = 10000 /\ current_prices["B"] = 10000
    /\ signals["A"].buy /\ signals["B"].buy
    /\ \A k \in 1..Len(trade_log) : trade_log[k].date = date

\* C5: within one date the instruments are handled in the order of the
\* instrument list, and each BUY is sized from the cash and the ledger as left
\* by the trades before it in the log, earlier trades of the same date included;
\* in the scenario A buys 5 shares leaving 500.00 and B then buys 5 leaving 0.
C5_SameDateOrderAndSizing ==
    /\ pc = "tickers" =>
         \A k \in 1..Len(trade_log) :
            trade_log[k].date = date =>
              /\ trade_log[k].stock \in DOMAIN current_prices
              /\ trade_log[k].price = current_prices[trade_log[k].stock]
              /\ (k > 1 /\ trade_log[k - 1].date = date)
                   => StockIndex(trade_log[k - 1].stock) < StockIndex(trade_log[k].stock)
              /\ trade_log[k].type = "BUY" =>
                   trade_log[k].quantity =
                      get_available_cash_for_stock(CashAfter(trade_log, k - 1),
                                                   LedgerAfter(trade_log, k - 1),
                                                   current_prices)
                        \div (100 * trade_log[k].price)
    /\ (C5_Scenario /\ idx = 1) => (cash = 100000 /\ positions["A"] = 0 /\ positions["B"] = 0)
    /\ (C5_Scenario /\ idx = 2) => (cash = 50000 /\ positions["A"] = 5 /\ positions["B"] = 0)
    /\ (C5_Scenario /\ idx = 3) => (cash = 0 /\ positions["A"] = 5 /\ positions["B"] = 5)

C5_Witness ==
    /\ C5_Scenario /\ idx = 3
    /\ Len(trade_log) = 2
    /\ trade_log[1].stock = "A" /\ trade_log[1].quantity = 5 /\ trade_log[1].cash_after = 50000
    /\ trade_log[2].stock = "B" /\ trade_log[2].quantity = 5

\* C6: the cash an executed BUY takes (value plus commission) is at most the
\* available cash computed from the cash, ledger and prices right before it.
C6_BuyCostWithinAvailableCash ==
    [][ (pc = "tickers" /\ TradeAppended /\ LastRecord(trade_log').type = "BUY")
        => /\ cash - cash' = LastRecord(trade_log').value + LastRecord(trade_log').commission
           /\ 100 * (cash - cash')
                <= get_available_cash_for_stock(cash, positions, current_prices) ]_vars

\* C7: whenever the date loop's can_buy asks for it, the available cash is
\* min(max(0, cash - value*reserve), value*max_position_size), it is >= 0, and
\* it is 0 whenever cash <= value*reserve.
C7_AvailableCashContract ==
    (InTurn /\ signals[TurnTicker].buy /\ positions[TurnTicker] = 0)
    => LET r == get_available_cash_for_stock(cash, positions, current_prices)
           pv == get_portfolio_value(cash, positions, current_prices)
       IN  /\ r = Min(Max(0, 100 * cash - pv * config.min_cash_reserve),
                      pv * config.max_position_size)
           /\ r >= 0
           /\ (100 * cash <= pv * config.min_cash_reserve) => r = 0

\* A row of the signals frame, after fillna(False).astype(bool).
FlagSet(r, col) == r # NoRow /\ r[col] = "True"

\* The step is one turn of Backtester.run's row loop.
RowDone == row' = row + 1

SellWinRatio(trades) ==
    LET sells == {k \in 1..Len(trades) : trades[k].type = "SELL"}
    IN  RoundHundredths(Cardinality({k \in sells : IsWin(trades, k)}), Cardinality(sells))

\* C9: the summary's Win Ratio is the number of SELL trades priced above the
\* record right before them, over the number of SELL trades.
C9_WinRatioOverSellTrades ==
    (bt_pc = "done" /\ \E k \in 1..Len(executed_trades) : executed_trades[k].type = "SELL")
    => summary.win_ratio = SellWinRatio(executed_trades)

\* C10: the cash recorded after every executed Backtester trade is >= 0.
C10_BacktesterCashNeverNegative ==
    \A k \in 1..Len(executed_trades) : executed_trades[k].cash >= 0


\* C11: a PortfolioManager built on an out-of-range configuration (initial_cash
\* <= 0, max_position_size outside (0, 1], min_cash_reserve < 0) is rejected at
\* construction, so it never records a trade or a snapshot.
IsInvalidConfig(c) ==
    \/ c.initial_cash <= 0
    \/ c.max_position_size <= 0
    \/ c.max_position_size > 100
    \/ c.min_cash_reserve < 0

C11_InvalidConfigRejected ==
    IsInvalidConfig(config) => (trade_log = <<>> /\ daily_values = <<>>)


\* C12: when the dates of price_df are not in ascending order, run() aborts:
\* it executes no trade and returns no summary.
NotAscending(frame) == \E i \in 1..(Len(frame) - 1) : frame[i + 1].ts <= frame[i].ts

C12_UnorderedDatesAbort ==
    NotAscending(price_df) => (executed_trades = <<>> /\ bt_pc # "done")


\* C13: whatever execute_buy, execute_sell and update_daily_value calls were
\* made, get_summary() reports total_trades = the number of records in the
\* trade log and current_positions = the number of instruments held.
C13_SummaryCounts ==
    LET s == get_summary(cash, positions, trade_log, daily_values)
    IN  /\ s.total_trades = Len(trade_log)
        /\ s.current_positions = Cardinality({stock \in StockSet : positions[stock] > 0})

\* C14: at the end of a run in which no trade executed (a run over no date
\* included), the summary reports total_return_pct = 0, max_drawdown = 0 and
\* total_trades = 0, and every snapshot has total_value = initial_cash.
C14_NoTradeRunSummary ==
    (pc = "done" /\ trade_log = <<>>) =>
        LET s == get_summary(cash, positions, trade_log, daily_values)
        IN  /\ s.total_return_pct = Zero
            /\ "max_drawdown" \in DOMAIN s
            /\ s.max_drawdown = Zero
            /\ s.total_trades = 0
            /\ \A k \in 1..Len(daily_values) :
                   daily_values[k].total_value = config.initial_cash


\* (date, position in the instrument list) of record a is before that of b.
RecordBefore(a, b) ==
    \/ a.date < b.date
    \/ a.date = b.date /\ StockIndex(a.stock) < StockIndex(b.stock)

\* C15: the trade log only grows at its end, by at most one record per step,
\* and stays strictly increasing in (date, position of the instrument in the
\* instrument list): no record is removed or changed, dates never decrease, and
\* an instrument gets at most one record per date.
C15_AppendOnlyOrderedLog ==
    [][ /\ (trade_log' = trade_log \/ TradeAppended)
        /\ \A k \in 1..(Len(trade_log') - 1) :
              RecordBefore(trade_log'[k], trade_log'[k + 1]) ]_vars

C15_Witness ==
    /\ Len(trade_log) = 3
    /\ trade_log[1].date = trade_log[2].date
    /\ trade_log[2].date < trade_log[3].date
    /\ trade_log[3].stock = trade_log[1].stock

\* Sum of shares * price over the instruments of S.
RECURSIVE PricedValue(_, _, _)
PricedValue(S, pos, prices) ==
    IF S = {} THEN 0
    ELSE LET s == CHOOSE x \in S : TRUE
         IN  pos[s] * prices[s] + PricedValue(S \ {s}, pos, prices)

SnapshotAppended ==
    /\ Len(daily_values') = Len(daily_values) + 1
    /\ SubSeq(daily_values', 1, Len(daily_values)) = daily_values

\* C16: the run loop takes exactly one snapshot per date, in ascending date
\* order and after all of that date's trades; the snapshot's cash is the live
\* cash, its stock_value is the sum of shares * price over the instruments
\* priced on that date (a held instrument without a price that date counts 0)
\* and its total_value is cash + stock_value.
C16_OneSnapshotPerDate ==
    [][ /\ (daily_values' = daily_values \/ SnapshotAppended)
        /\ SnapshotAppended =>
              LET snap == daily_values'[Len(daily_values')]
              IN  /\ pc = "tickers" /\ idx > Len(Keys(current_prices))
                  /\ current_prices # NoPrices
                  /\ snap.date = date
                  /\ snap.cash = cash /\ cash' = cash
                  /\ snap.positions = positions
                  /\ snap.stock_value =
                        PricedValue(DOMAIN current_prices, positions, current_prices)
                  /\ snap.total_value = snap.cash + snap.stock_value
        /\ TradeAppended =>
              \A k \in 1..Len(daily_values) :
                 daily_values[k].date < LastRecord(trade_log').date
        /\ pc' \in {"dates", "done"} =>
              /\ Len(daily_values') = date'
              /\ \A k \in 1..Len(daily_values') : daily_values'[k].date = k ]_vars

\* A is held over three dates, has no price on the second and one on the third.
C16_Witness ==
    /\ Len(daily_values) = 3
    /\ daily_values[2].positions["A"] > 0
    /\ daily_values[2].stock_value = 0
    /\ daily_values[3].positions = daily_values[2].positions
    /\ daily_values[3].stock_value > 0

\* C17: execute_buy on an instrument already held, execute_buy when the
\* available cash is below the price (quantity zero) and execute_sell on an
\* instrument not held return False and leave cash, ledger, trade log and
\* snapshot log as they were.
C17_RefusedCallsChangeNothing ==
    [][ (InTurn /\ idx' = idx + 1) =>
          LET price == current_prices[TurnTicker]
              held == positions[TurnTicker] > 0
              available == get_available_cash_for_stock(cash, positions, current_prices)
              refused_buy == signals[TurnTicker].buy /\ (held \/ available < 100 * price)
              refused_sell == ~signals[TurnTicker].buy /\ signals[TurnTicker].sell /\ ~held
          IN  (refused_buy \/ refused_sell) =>
                 /\ ret' = "False"
                 /\ UNCHANGED <<cash, positions, trade_log, daily_values>> ]_vars

\* B's turn has just ended in a refused buy: B is not held, its buy flag is
\* true and the available cash is below its price.
C17_Witness ==
    /\ pc = "tickers" /\ idx = 3
    /\ DOMAIN current_prices = {"A", "B"}
    /\ ret = "False"
    /\ signals["B"].buy
    /\ positions["B"] = 0
    /\ get_available_cash_for_stock(cash, positions, current_prices) < 100 * current_prices["B"]


\* The step appended one record to the Backtester's trades.
BTTradeAppended ==
    /\ Len(executed_trades') = Len(executed_trades) + 1
    /\ SubSeq(executed_trades', 1, Len(executed_trades)) = executed_trades

\* C18: on each row of price_df, Backtester.run buys floor(cash / price) shares
\* if the buy flag is true, the position is flat and that quantity is > 0;
\* otherwise it sells the whole position if the sell flag is true and the
\* position is long; otherwise it does nothing.  A BUY takes price * qty + fee
\* out of cash, a SELL puts price * qty - fee in, with the same flat fee.
C18_RowRule ==
    [][ (bt_pc = "rows" /\ row' = row + 1) =>
          LET r == price_df[row + 1]
              own == sig_frame[r.ts]
              flags == IF own # NoRow THEN own ELSE LatestBefore(sig_frame, r.ts)
              buy == flags # NoRow /\ flags.buy = "True"
              sell == flags # NoRow /\ flags.sell = "True"
              qty == bt_cash \div r.close
          IN  IF buy /\ bt_position = 0 /\ qty > 0
              THEN /\ BTTradeAppended
                   /\ LastRecord(executed_trades').type = "BUY"
                   /\ LastRecord(executed_trades').qty = qty
                   /\ bt_position' = qty
                   /\ bt_cash' = bt_cash - (r.close * qty + bt.commission)
              ELSE IF sell /\ bt_position > 0
                   THEN /\ BTTradeAppended
                        /\ LastRecord(executed_trades').type = "SELL"
                        /\ LastRecord(executed_trades').qty = bt_position
                        /\ bt_position' = 0
                        /\ bt_cash' = bt_cash + (r.close * bt_position - bt.commission)
                   ELSE UNCHANGED <<bt_cash, bt_position, executed_trades>> ]_vars


\* The five-day falling market, bought on day 1 and sold on day 5.
FallingScenario ==
    /\ bt = [initial_cash |-> 100000, commission |-> 0]
    /\ price_df = FallingPrices
    /\ sig_frame = BuyFirstSellLast

\* C19: closes 100, 90, 80, 70, 60, buy flag only on day 1, sell flag only on
\* day 5, initial_cash 1000, commission 0: exactly two trades, BUY 10 @ 100
\* leaving cash 0 and SELL 10 @ 60 on day 5 leaving cash 600, and a
\* Total Return % of -40.0.
C19_FallingMarketScenario ==
    (FallingScenario /\ bt_pc = "done") =>
        /\ executed_trades =
              <<[date |-> 1, type |-> "BUY", price |-> 10000, qty |-> 10, cash |-> 0],
                [date |-> 5, type |-> "SELL", price |-> 6000, qty |-> 10, cash |-> 60000]>>
        /\ summary.total_return = 0 - 4000
        /\ summary.trades = 2

C19_Witness ==
    /\ FallingScenario
    /\ bt_pc = "done"
    /\ row = 5
    /\ Len(executed_trades) = 2

\* max(v[1..i]) of the total values.
RunningMax(dv, i) ==
    CHOOSE m \in {dv[j].total_value : j \in 1..i} : \A j \in 1..i : dv[j].total_value <= m

\* The greatest of (max(v[1..i]) - v[i]) / max(v[1..i]) * 100 over i.
GreatestDrawdown(dv) ==
    LET S == {Frac(100 * (RunningMax(dv, i) - dv[i].total_value), RunningMax(dv, i)) :
                 i \in 1..Len(dv)}
    IN  CHOOSE f \in S : \A g \in S : ~FracLess(f.num, f.den, g.num, g.den)

\* C20: _calculate_max_drawdown returns the maximum over i of
\* (max(v[0..i]) - v[i]) / max(v[0..i]) * 100 of the total values v; it is >= 0
\* with two or more snapshots, 0 when v never decreases, and 0 with fewer than
\* two snapshots.
C20_MaxDrawdown ==
    drawdown_ret # NotCalled =>
        /\ Len(daily_values) >= 2 =>
              /\ drawdown_ret = GreatestDrawdown(daily_values)
              /\ drawdown_ret.num >= 0
        /\ (\A i \in 1..(Len(daily_values) - 1) :
               daily_values[i].total_value <= daily_values[i + 1].total_value)
              => drawdown_ret = Zero
        /\ Len(daily_values) < 2 => drawdown_ret = Zero

\* 1000, 1250, 1000, 1250: the drawdown of 20% is in the middle of the log.
C20_Witness ==
    /\ drawdown_ret = [num |-> 20, den |-> 1]
    /\ Len(daily_values) = 4
    /\ daily_values[4].total_value = 125000
    /\ daily_values[3].total_value = 100000


ResetStep == pc = "api" /\ pc' = "api" /\ ret' = "None" /\ ~SnapshotAppended

\* C22: nothing carries over.  A run() call on a Backtester that has run
\* before, on the same frames, returns the trades, the equity curve and the
\* summary the earlier calls returned; and reset() on a PortfolioManager
\* leaves cash = initial_cash, every ledger entry 0 and both logs empty.
C22_NoCarryOver ==
    [][ /\ (bt_pc' = "done" /\ bt_pc = "rows") =>
              \A k \in 1..Len(prev_runs') :
                 prev_runs'[k] = [trades |-> executed_trades', pnl |-> equity',
                                  summary |-> summary']
        /\ ResetStep =>
              /\ cash' = config.initial_cash
              /\ \A s \in StockSet : positions'[s] = 0
              /\ trade_log' = <<>>
              /\ daily_values' = <<>> ]_vars

\* A second run, with a fee, has returned after a first one that traded twice.
C22_Witness ==
    /\ bt_pc = "done"
    /\ prev_runs # <<>>
    /\ bt.commission > 0
    /\ Len(executed_trades) >= 2
    /\ bt_cash # bt.initial_cash


\* C23: the ledger's keys are the configured instruments and every share count
\* is an integer >= 0; an instrument's count is the quantity of its latest
\* trade record when that record is a BUY, and 0 when it has no record or the
\* latest is a SELL; and every SELL record sells the quantity of the BUY record
\* of the same instrument that precedes it.
C23_LedgerFollowsLog ==
    /\ DOMAIN positions = StockSet
    /\ \A s \in StockSet :
          LET last == LastIndexOf(trade_log, Len(trade_log), s)
          IN  /\ positions[s] \in Nat
              /\ positions[s] = IF last # 0 /\ trade_log[last].type = "BUY"
                                THEN trade_log[last].quantity
                                ELSE 0
    /\ \A k \in 1..Len(trade_log) :
          trade_log[k].type = "SELL" =>
             LET prev == LastIndexOf(trade_log, k - 1, trade_log[k].stock)
             IN  /\ prev # 0
                 /\ trade_log[prev].type = "BUY"
                 /\ trade_log[prev].quantity = trade_log[k].quantity

\* One instrument is held after a BUY of several shares while the other has
\* been bought and sold in full.
C23_Witness ==
    /\ Len(trade_log) = 3
    /\ \E s \in StockSet : positions[s] > 1
    /\ \E k \in 1..Len(trade_log) :
          trade_log[k].type = "SELL" /\ trade_log[k].quantity > 1


\* The rows generate_signals has returned.
SignalRowsOut == 1..Len(signals_df)

Undefined(r) == r.rsi.nan \/ r.ma_fast.nan \/ r.ma_slow.nan

\* C24 as stated: buy and sell are booleans on every row; on a row where RSI
\* or a moving average is undefined every RSI comparison is false, so neither
\* flag is set; and the first row's previous-row cross is taken as false.
C24_WarmUpRowsNeverSignal ==
    \A i \in SignalRowsOut :
       LET r == signals_df[i]
       IN  /\ r.buy \in BOOLEAN /\ r.sell \in BOOLEAN
           /\ Undefined(r) =>
                 /\ ~LessThan(r.rsi, cfg.buy_rsi) /\ ~LessThan(r.rsi, 45)
                 /\ ~GreaterThan(r.rsi, cfg.sell_rsi) /\ ~GreaterThan(r.rsi, 55)
                 /\ ~r.buy /\ ~r.sell
           /\ i = 1 => ~r.ma_cross_prev

\* C24, amended: buy and sell are booleans on every row; on a row where RSI
\* is undefined neither flag is set; on a row where a moving average is
\* undefined there is no cross and no crossover, so buy is RSI < buy_rsi and
\* sell is RSI > sell_rsi; the previous-row cross is false on the first row
\* and the previous row's cross after it.
C24_SignalsBooleanNaNFalse ==
    \A i \in SignalRowsOut :
       LET r == signals_df[i]
       IN  /\ r.buy \in BOOLEAN /\ r.sell \in BOOLEAN
           /\ r.rsi.nan => ~r.buy /\ ~r.sell
           /\ (r.ma_fast.nan \/ r.ma_slow.nan) =>
                 /\ ~r.ma_cross /\ ~r.bullish_crossover /\ ~r.bearish_crossover
                 /\ r.buy = (~r.rsi.nan /\ r.rsi.num < cfg.buy_rsi * r.rsi.den)
                 /\ r.sell = (~r.rsi.nan /\ r.rsi.num > cfg.sell_rsi * r.rsi.den)
           /\ r.ma_cross_prev = (i > 1 /\ signals_df[i - 1].ma_cross)

\* A frame whose first rows are warm-up rows, with RSI defined before the slow
\* average, a buy on such a row, and a bullish crossover on the first row
\* where both averages are defined.
C24_Witness ==
    /\ signals_df # <<>>
    /\ signals_df[1].rsi.nan /\ ~signals_df[1].buy
    /\ \E i \in SignalRowsOut :
          /\ signals_df[i].ma_slow.nan /\ ~signals_df[i].rsi.nan /\ signals_df[i].buy
    /\ \E i \in SignalRowsOut :
          /\ i > 1
          /\ signals_df[i - 1].ma_slow.nan
          /\ signals_df[i].bullish_crossover


\* C27: with the default thresholds buy_rsi = 30 and sell_rsi = 70, no row of
\* the frame generate_signals returns has buy and sell both true: a buy row
\* has RSI < 45 and a sell row has RSI > 55.
C27_DefaultNeverBuyAndSell ==
    (cfg.buy_rsi = RSIMAStrategyConfig.buy_rsi /\ cfg.sell_rsi = RSIMAStrategyConfig.sell_rsi) =>
       \A i \in SignalRowsOut :
          LET r == signals_df[i]
          IN  /\ ~(r.buy /\ r.sell)
              /\ r.buy => ~r.rsi.nan /\ r.rsi.num < 45 * r.rsi.den
              /\ r.sell => ~r.rsi.nan /\ r.rsi.num > 55 * r.rsi.den

\* Default thresholds, a buy row whose RSI is not below 30 (bought on the
\* bullish crossover) and a sell row in the same frame.
C27_Witness ==
    /\ cfg.buy_rsi = 30 /\ cfg.sell_rsi = 70
    /\ \E i \in SignalRowsOut :
          /\ signals_df[i].buy
          /\ signals_df[i].bullish_crossover
          /\ signals_df[i].rsi.num >= 30 * signals_df[i].rsi.den
    /\ \E i \in SignalRowsOut : signals_df[i].sell


\* C25: right after every BUY the date loop executes, the cash left is at
\* least min_cash_reserve times the portfolio value at that date's prices.
C25_ReserveHeldAfterBuy ==
    [][ (pc = "tickers" /\ TradeAppended /\ LastRecord(trade_log').type = "BUY")
        => 100 * cash' >= config.min_cash_reserve
                            * get_portfolio_value(cash', positions', current_prices) ]_vars


\* C26: every executed trade, BUY or SELL, changes the portfolio value by
\* exactly minus its commission, under any price dict that marks the traded
\* instrument at the trade price; with a zero commission rate it leaves the
\* value as it was.
C26_TradeCostsItsCommission ==
    [][ (pc = "api" /\ TradeAppended) =>
          LET r == LastRecord(trade_log')
          IN  \A P \in PriceDicts :
                 (r.stock \in DOMAIN P /\ P[r.stock] = r.price) =>
                    /\ get_portfolio_value(cash', positions', P)
                         = get_portfolio_value(cash, positions, P) - r.commission
                    /\ config.commission = 0 =>
                          get_portfolio_value(cash', positions', P)
                            = get_portfolio_value(cash, positions, P) ]_vars

\* A BUY and a SELL have both been charged a commission, with the other
\* instrument held meanwhile.
C26_Witness ==
    /\ pc = "api"
    /\ Len(trade_log) = 3
    /\ \E j, k \in 1..Len(trade_log) :
          /\ trade_log[j].type = "BUY" /\ trade_log[j].commission > 0
          /\ trade_log[k].type = "SELL" /\ trade_log[k].commission > 0
    /\ \E s \in StockSet : positions[s] > 0


\* The instrument has no price row on the date the step belongs to.
UnpricedOnThisDate(s) ==
    \/ pc = "tickers" /\ s \notin DOMAIN current_prices
    \/ pc' = "tickers" /\ s \notin DOMAIN current_prices'

\* C28: in the date loop, over a date on which an instrument has no price row
\* its ledger entry stays as it was and no trade record is written for it,
\* whatever happens to the other instruments; the position it holds is sold
\* in full when its turn comes on a date on which it has a price and the loop
\* reads its sell flag.
C28_UnpricedInstrumentUntouched ==
    [][ /\ \A s \in StockSet :
              UnpricedOnThisDate(s) =>
                 /\ positions'[s] = positions[s]
                 /\ trade_log' # trade_log =>
                       TradeAppended /\ LastRecord(trade_log').stock # s
        /\ (InTurn /\ idx' = idx + 1 /\ positions[TurnTicker] > 0
              /\ signals[TurnTicker].sell /\ ~signals[TurnTicker].buy) =>
              /\ TradeAppended
              /\ LastRecord(trade_log').type = "SELL"
              /\ LastRecord(trade_log').stock = TurnTicker
              /\ LastRecord(trade_log').quantity = positions[TurnTicker]
              /\ positions'[TurnTicker] = 0 ]_vars

\* An instrument bought on date 1 has no price row on date 2, when the other
\* instrument is traded and the snapshot counts only that one, and is sold in
\* full on date 3.
C28_Witness ==
    \E s, o \in StockSet :
       /\ s # o
       /\ Len(trade_log) = 3
       /\ Len(daily_values) >= 2
       /\ trade_log[1].stock = s /\ trade_log[1].type = "BUY" /\ trade_log[1].date = 1
       /\ trade_log[2].stock = o /\ trade_log[2].type = "BUY" /\ trade_log[2].date = 2
       /\ trade_log[3].stock = s /\ trade_log[3].type = "SELL" /\ trade_log[3].date = 3
       /\ trade_log[3].quantity = trade_log[1].quantity
       /\ daily_values[2].positions[s] = trade_log[1].quantity
       /\ daily_values[2].stock_value = trade_log[2].quantity * trade_log[2].price
       /\ positions[s] = 0

====
